---- MODULE Spec2Model ----
(***************************************************************************)
(* A model of the Fibonacci heap of crhino/Rust-Heaps.                     *)
(*                                                                         *)
(*   src/src/fib_node.rs        the node: key, value, parent, children,    *)
(*                              marked; nodes compare by key only          *)
(*   src/src/fibonacci_heap.rs  FibHeap: roots, total, hash_table and the  *)
(*                              operations insert, find_min, delete_min,   *)
(*                              decrease_key, delete, merge                *)
(*                                                                         *)
(* Nodes live in an arena indexed by NodeIds; a node reference (FibNode,   *)
(* a copyable raw pointer) is an index, Option::None is the index None.    *)
(* Every operation of the heap is one action.  The helpers the operations  *)
(* call are operators over a record S holding the node arena together with *)
(* the fields of the FibHeap they act on, so that an action is the whole   *)
(* handler.  A panic is the absorbing state fault # "none".  The program    *)
(* never frees a node (into_inner clones it and the box leaks), so an      *)
(* address is never used twice: node n is the n-th allocation, and the     *)
(* slot of a node that was handed back to the caller is kept Blank once    *)
(* nothing refers to it.                                                   *)
(*                                                                         *)
(* Spec runs any calls on two heaps, SpecBeyond adds decrease_key calls    *)
(* with a delta above the key, SpecDrain is an insert-then-drain run,      *)
(* SpecScript follows one of four fixed call sequences that build deeper   *)
(* trees, SpecNode adds and removes the children of one node, and SpecLib    *)
(* runs calls on the earlier heap of src/src/lib.rs.                       *)
(***************************************************************************)
EXTENDS Integers, Sequences, FiniteSets, Bags, TLC

\* ---------------------------------------------------------------- bounds
MaxNodes == 3
MaxKey == 1
MaxValue == 2
\* the number of inserts of an insert-then-drain run
MaxDrain == 5
\* the number of calls made after the scripted calls of a scripted run
MaxFree == 2
\* the number of nodes a run on one node makes besides that node
MaxChildren == 3

\* The calls of the scripted run, on the heap "self".  Two inserts of five
\* followed by delete_min build a tree of rank 3 whose nodes all have key 1:
\* node 2 with the children 3, 4 and 7, node 7 with the children 8 and 9.
\* The two decrease_key calls cut 8 and then 9 from 7, so the second one
\* finds 7 marked and cascading_cut cuts 7 from 2.
Call(name, k, v) == [op |-> name, k |-> k, v |-> v]

Script ==
    << Call("insert", 0, 1), Call("insert", 1, 2), Call("insert", 1, 3),
       Call("insert", 1, 4), Call("insert", 1, 5), Call("delete_min", 0, 0),
       Call("insert", 0, 6), Call("insert", 1, 7), Call("insert", 1, 8),
       Call("insert", 1, 9), Call("insert", 1, 10), Call("delete_min", 0, 0),
       Call("decrease_key", 1, 8), Call("decrease_key", 1, 9),
       Call("delete_min", 0, 0), Call("delete_min", 0, 0) >>

\* The calls of a second scripted run.  Five inserts and delete_min build the
\* tree of (1,2) with the children (2,3) and (2,4), where (2,4) has the
\* child (3,5); decrease_key by 2 cuts (3,5) from (2,4), which is marked
\* for it.
MarkScript ==
    << Call("insert", 0, 1), Call("insert", 1, 2), Call("insert", 2, 3),
       Call("insert", 2, 4), Call("insert", 3, 5), Call("delete_min", 0, 0),
       Call("decrease_key", 2, 5) >>

\* The calls of a third scripted run.  Nine inserts and delete_min build a
\* tree of 8 nodes and rank 3: (2,2) with the children (2,3), (2,4) and
\* (2,6), (2,4) with the child (2,5), (2,6) with the children (2,7) and
\* (2,8), (2,8) with the child (2,9).  (2,5) is cut from (2,4) and removed,
\* then (2,9) is cut from (2,8): (2,2) keeps its rank and 7 nodes are left.
RankScript ==
    << Call("insert", 0, 1), Call("insert", 2, 2), Call("insert", 2, 3),
       Call("insert", 2, 4), Call("insert", 2, 5), Call("insert", 2, 6),
       Call("insert", 2, 7), Call("insert", 2, 8), Call("insert", 2, 9),
       Call("delete_min", 0, 0), Call("decrease_key", 1, 5),
       Call("delete_min", 0, 0), Call("decrease_key", 1, 9) >>

\* The calls of a fourth scripted run: those of the third, then (2,7) is cut
\* from (2,6), which is marked for it, and delete of (2,8) cuts (2,8) from
\* (2,6) and (2,6) from (2,2).  Delete of (2,2) then promotes the children of
\* (2,2), and the last call is a decrease_key on (2,6).
TwiceScript ==
    RankScript \o
    << Call("decrease_key", 1, 7), Call("delete", 0, 8), Call("delete", 0, 2),
       Call("decrease_key", 2, 6) >>

Max(A) == CHOOSE a \in A : \A b \in A : b <= a

Scripts == {Script, MarkScript, RankScript, TwiceScript}

\* the modes of the scripted runs, one for each script
ScriptModes == {"script", "marks", "ranks", "twice"}

ScriptInserts ==
    Max({Cardinality({i \in 1..Len(s) : s[i].op = "insert"}) : s \in Scripts})

ScriptValues == UNION {{s[i].v : i \in 1..Len(s)} : s \in Scripts} \ {0}

ScriptKeys == UNION {{s[i].k : i \in 1..Len(s)} : s \in Scripts}

\* the number of values of the key type of the tests, FibHeap<u8, u8>
KeyModulus == 256

\* Option::None of a node reference
None == 0

\* the arena has room for the longest run
NodeIds == 1..Max({MaxNodes, MaxDrain, ScriptInserts, MaxChildren + 1})
Keys == 0..MaxKey
Values == 1..MaxValue
\* the keys and values of all runs: the domain of the tables
AllKeys == Keys \cup ScriptKeys
AllValues == Values \cup ScriptValues
Heaps == {"self", "other"}

VARIABLES
    nodes,       \* the arena: NodeIds -> the fields of struct _FibNode
    roots,       \* Heaps -> FibHeap.roots, front first
    total,       \* Heaps -> FibHeap.total
    hash_table,  \* Heaps -> FibHeap.hash_table, value -> node or None
    allocs,      \* the number of nodes FibNode::new has allocated so far
    fault,       \* "none", or the panic that ended the program
    elems,       \* Heaps -> nodes inserted or merged in and not yet returned
    ref,         \* Heaps -> the reference priority queue, a bag of keys
    last,        \* the last operation: its name, heap, argument and result
    mode,        \* "any", "fill"/"drain" for an insert-then-drain run, "script",
                 \* "marks", "ranks" and "twice" for the scripted runs,
                 \* "node" for a run on the children of one node, "beyond"
                 \* after a decrease_key with a delta above the key, "lib" for
                 \* a run on the heap of lib.rs
    step,        \* the number of calls made in a scripted run
    put,         \* the keys handed to insert during such a run, in order
    out          \* what delete_min returned during such a run, in order

vars == <<nodes, roots, total, hash_table, allocs, fault, elems, ref, last, mode, step, put, out>>

\* ------------------------------------------------------------- sequences
Range(s) == {s[i] : i \in 1..Len(s)}

Front(s) == s[1]

PushFront(s, x) == <<x>> \o s

PushBack(s, x) == Append(s, x)

\* DList::rotate_backward: the first element moves to the back
RotateBackward(s) == IF Len(s) = 0 THEN s ELSE Append(Tail(s), Head(s))

\* DList::rotate_forward: the last element moves to the front
RotateForward(s) == IF Len(s) = 0 THEN s ELSE <<s[Len(s)]>> \o SubSeq(s, 1, Len(s) - 1)

\* ------------------------------------------------------------- the node
\* a slot of the arena that holds no node
Blank == [parent |-> None, children |-> <<>>, marked |-> FALSE, key |-> 0, value |-> None]

\* FibNode::new
new(k, v) == [parent |-> None, children |-> <<>>, marked |-> FALSE, key |-> k, value |-> v]

\* _FibNode::rank
rank(S, n) == Len(S.nodes[n].children)

\* PartialOrd for _FibNode: nodes order by key
node_lt(S, a, b) == S.nodes[a].key < S.nodes[b].key

\* PartialEq for _FibNode: nodes are equal when their keys are
node_eq(S, a, b) == S.nodes[a].key = S.nodes[b].key

set_parent(S, n, p) == [S EXCEPT !.nodes[n].parent = p]

set_marked(S, n, m) == [S EXCEPT !.nodes[n].marked = m]

set_key(S, n, k) == [S EXCEPT !.nodes[n].key = k]

\* _FibNode::add_child: push_back
add_child(S, p, c) == [S EXCEPT !.nodes[p].children = Append(@, c)]

\* _FibNode::remove_child: rotate the children until the front equals the
\* child (PartialEq, so by key), pop it; Err after a full turn.
\* The result is <<ok, S'>>.
remove_child(S, p, c) ==
    LET cs == S.nodes[p].children
        hits == {i \in 1..Len(cs) : node_eq(S, cs[i], c)}
    IN  IF hits = {}
        THEN [ok |-> FALSE, removed |-> None, S |-> S]
        ELSE LET i == CHOOSE j \in hits : \A l \in hits : j <= l
                 rest == SubSeq(cs, i + 1, Len(cs)) \o SubSeq(cs, 1, i - 1)
             IN  [ok |-> TRUE, removed |-> cs[i],
                  S |-> [S EXCEPT !.nodes[p].children = rest]]

\* ------------------------------------------------------------- the heap
\* the record the helpers work on: the arena and one FibHeap
State(h) ==
    [nodes |-> nodes, roots |-> roots[h], total |-> total[h],
     hash_table |-> hash_table[h], rank_vec |-> <<>>, fault |-> "none",
     taken |-> None, links |-> <<>>]

Panic(S, what) == IF S.fault = "none" THEN [S EXCEPT !.fault = what] ELSE S

\* FibHeap::insert_root
insert_root(S, root) ==
    IF Len(S.roots) = 0 \/ node_lt(S, Front(S.roots), root)
    THEN [S EXCEPT !.roots = PushBack(@, root)]
    ELSE [S EXCEPT !.roots = PushFront(@, root)]

\* the loop of FibHeap::sort_roots: i iterations are left
RECURSIVE sort_roots_loop(_, _, _, _)
sort_roots_loop(S, min_node, rs, i) ==
    IF i = 0
    THEN PushFront(rs, min_node)
    ELSE IF node_lt(S, Front(rs), min_node)
         THEN sort_roots_loop(S, Front(rs),
                  RotateBackward(RotateForward(Tail(PushBack(rs, min_node)))), i - 1)
         ELSE sort_roots_loop(S, min_node, RotateBackward(rs), i - 1)

\* FibHeap::sort_roots
sort_roots(S) ==
    IF Len(S.roots) = 0
    THEN S
    ELSE [S EXCEPT !.roots = sort_roots_loop(S, Front(S.roots), Tail(S.roots),
                                             Len(S.roots) - 1)]

\* cut that leaves the parent pointer of the child in place
cut_keeps_parent(S, p, child) ==
    LET res == remove_child(S, p, child)
    IN  IF ~res.ok
        THEN Panic(S, "assert: res.is_ok()")
        ELSE set_marked(res.S, child, FALSE)

\* FibHeap::cut
cut(S, p, child) ==
    LET res == remove_child(S, p, child)
    IN  IF ~res.ok
        THEN Panic(S, "assert: res.is_ok()")
        ELSE set_marked(set_parent(res.S, child, None), child, FALSE)

RECURSIVE cascading_cut(_, _)

\* cascading_cut that marks a node that has a parent and never cuts it
cascading_cut_marks(S, node) ==
    IF S.fault # "none" THEN S
    ELSE IF S.nodes[node].parent = None
         THEN S
         ELSE set_marked(S, node, TRUE)

\* FibHeap::cascading_cut
cascading_cut(S, node) ==
    IF S.fault # "none" THEN S
    ELSE LET p == S.nodes[node].parent
         IN  IF p = None
             THEN S
             ELSE IF S.nodes[node].marked
                  THEN cascading_cut(insert_root(cut(S, p, node), node), p)
                  ELSE set_marked(S, node, TRUE)

\* decreased_node with the comparison turned around: the node stays under a
\* parent with a larger key
decreased_node_reversed(S, node) ==
    LET p == S.nodes[node].parent
    IN  IF p = None
        THEN sort_roots(S)
        ELSE IF node_lt(S, p, node)
             THEN LET C == cut(S, p, node)
                  IN  IF C.fault # "none" THEN C
                      ELSE cascading_cut(insert_root(C, node), p)
             ELSE S

\* FibHeap::decreased_node
decreased_node(S, node) ==
    LET p == S.nodes[node].parent
    IN  IF p = None
        THEN sort_roots(S)
        ELSE IF node_lt(S, node, p)
             THEN LET C == cut(S, p, node)
                  IN  IF C.fault # "none" THEN C
                      ELSE cascading_cut(insert_root(C, node), p)
             ELSE S

\* floor(log2(n)) for n >= 1
RECURSIVE Log2Floor(_)
Log2Floor(n) == IF n <= 1 THEN 0 ELSE 1 + Log2Floor(n \div 2)

\* (self.total as f64).log2() as uint + 1; the cast of the logarithm of a
\* total below 1 (-inf or NaN) is undefined: any length cast may come out
log_n(S, cast) == IF S.total >= 1 THEN Log2Floor(S.total) + 1 ELSE cast

RECURSIVE insert_by_rank(_, _)
RECURSIVE link_and_insert(_, _, _)

\* what one link did: the node taken out of the slot, the two nodes, their
\* keys and ranks before, and the child's parent and mark and the parent's
\* rank once linked
Link(S, T, root, child) ==
    [taken |-> S.taken, root |-> root, child |-> child,
     root_key |-> S.nodes[root].key, child_key |-> S.nodes[child].key,
     root_rank |-> rank(S, root), child_rank |-> rank(S, child),
     parent |-> T.nodes[child].parent, marked |-> T.nodes[child].marked,
     rank |-> rank(T, root)]

\* link_and_insert that does not set the parent of the child
link_and_insert_orphan(S, root, child) ==
    LET T == add_child(set_marked(S, child, FALSE), root, child)
    IN  insert_by_rank([T EXCEPT !.links = Append(@, Link(S, T, root, child))], root)

\* FibHeap::link_and_insert; links keeps what each link of the call did
link_and_insert(S, root, child) ==
    LET T == add_child(set_marked(set_parent(S, child, root), child, FALSE),
                       root, child)
    IN  insert_by_rank([T EXCEPT !.links = Append(@, Link(S, T, root, child))], root)

\* insert_by_rank that makes the node with the smaller key the child
insert_by_rank_reversed(S, node) ==
    IF S.fault # "none" THEN S
    ELSE LET r == rank(S, node)
         IN  IF r + 1 > Len(S.rank_vec)
             THEN Panic(S, "index out of bounds")
             ELSE IF S.rank_vec[r + 1] = None
                  THEN [S EXCEPT !.rank_vec[r + 1] = node]
                  ELSE LET other == S.rank_vec[r + 1]
                           T == [S EXCEPT !.rank_vec[r + 1] = None, !.taken = other]
                       IN  IF node_lt(T, node, other)
                           THEN link_and_insert(T, other, node)
                           ELSE link_and_insert(T, node, other)

\* FibHeap::insert_by_rank; slot r of rank_vec is rank_vec[r + 1] here.
\* push(None) followed by swap_remove(rank) leaves None in the slot.
insert_by_rank(S, node) ==
    IF S.fault # "none" THEN S
    ELSE LET r == rank(S, node)
         IN  IF r + 1 > Len(S.rank_vec)
             THEN Panic(S, "index out of bounds")
             ELSE IF S.rank_vec[r + 1] = None
                  THEN [S EXCEPT !.rank_vec[r + 1] = node]
                  ELSE LET other == S.rank_vec[r + 1]
                           T == [S EXCEPT !.rank_vec[r + 1] = None, !.taken = other]
                       IN  IF node_lt(T, node, other)
                           THEN link_and_insert(T, node, other)
                           ELSE link_and_insert(T, other, node)

\* the first loop of consolidate: pop the roots, front first
RECURSIVE consolidate_drain(_)
consolidate_drain(S) ==
    IF S.fault # "none" \/ Len(S.roots) = 0
    THEN S
    ELSE consolidate_drain(insert_by_rank([S EXCEPT !.roots = Tail(@)], Front(S.roots)))

\* the second loop of consolidate: the occupied slots, lowest rank first
RECURSIVE consolidate_refill(_, _)
consolidate_refill(S, i) ==
    IF S.fault # "none" \/ i > Len(S.rank_vec)
    THEN [S EXCEPT !.rank_vec = <<>>]
    ELSE consolidate_refill(IF S.rank_vec[i] # None THEN insert_root(S, S.rank_vec[i]) ELSE S,
                            i + 1)

\* FibHeap::consolidate
consolidate(S, cast) ==
    consolidate_refill(
        consolidate_drain([S EXCEPT !.rank_vec = [i \in 1..log_n(S, cast) |-> None]]), 1)

\* promote_children that clears the parent pointers and forgets insert_root
promote_children_dropped(S, cs, i) ==
    [S EXCEPT !.nodes = [n \in NodeIds |->
                            IF n \in Range(cs) THEN [@[n] EXCEPT !.parent = None] ELSE @[n]]]

\* the loop of delete_min over the drained children: cs[i..] are left
RECURSIVE promote_children(_, _, _)
promote_children(S, cs, i) ==
    IF i > Len(cs)
    THEN S
    ELSE promote_children(insert_root(set_parent(S, cs[i], None), cs[i]), cs, i + 1)

\* _FibNode::into_inner: the two assertions
into_inner_ok(S, n) == S.nodes[n].parent = None /\ Len(S.nodes[n].children) = 0

\* what an operation hands back: the node and its (key, value)
Ret(S, n) == [node |-> n, key |-> S.nodes[n].key, value |-> S.nodes[n].value]

NoRet == [node |-> None, key |-> 0, value |-> None]

\* self.hash_table.remove(value)
table_remove(S, v) == [S EXCEPT !.hash_table[v] = None]

\* FibHeap::find_min
find_min(S) ==
    IF Len(S.roots) = 0
    THEN [S |-> Panic(S, "Fibonacci heap is empty"), ret |-> NoRet]
    ELSE [S |-> S, ret |-> Ret(S, Front(S.roots))]

\* insert that does not count the element
insert_uncounted(S, node, k, v) ==
    LET S1 == insert_root([S EXCEPT !.nodes[node] = new(k, v)], node)
    IN  [S1 EXCEPT !.hash_table[v] = node]

\* FibHeap::insert; node is the address FibEntry::new allocates
insert(S, node, k, v) ==
    LET S1 == insert_root([S EXCEPT !.nodes[node] = new(k, v)], node)
    IN  [S1 EXCEPT !.hash_table[v] = node, !.total = @ + 1]

\* FibHeap::delete_min
delete_min(S, cast) ==
    IF Len(S.roots) = 0
    THEN [S |-> Panic(S, "Fibonacci heap is empty"), ret |-> NoRet]
    ELSE LET min_node == Front(S.roots)
             cs == S.nodes[min_node].children
             S1 == [S EXCEPT !.roots = Tail(@), !.nodes[min_node].children = <<>>]
             S2 == consolidate(promote_children(S1, cs, 1), cast)
             S3 == table_remove([S2 EXCEPT !.total = @ - 1], S2.nodes[min_node].value)
         IN  IF S2.fault # "none"
             THEN [S |-> S2, ret |-> NoRet]
             ELSE IF ~into_inner_ok(S3, min_node)
                  THEN [S |-> Panic(S3, "assert: into_inner"), ret |-> NoRet]
                  ELSE [S |-> S3, ret |-> Ret(S3, min_node)]

\* FibHeap::decrease_key; indexing the table with an absent value panics
decrease_key(S, v, delta) ==
    LET node == S.hash_table[v]
    IN  IF node = None
        THEN Panic(S, "hash_table: no entry")
        ELSE decreased_node(set_key(S, node, S.nodes[node].key - delta), node)

\* decrease_key with a delta above the key: key - delta leaves the key type.
\* A build without overflow checks wraps around, a build with them panics.
decrease_key_beyond(S, v, delta, checked) ==
    LET node == S.hash_table[v]
    IN  IF node = None
        THEN Panic(S, "hash_table: no entry")
        ELSE IF checked
             THEN Panic(S, "arithmetic overflow")
             ELSE decreased_node(set_key(S, node, (S.nodes[node].key - delta) % KeyModulus),
                                 node)

\* merge that appends the roots of other without comparing
dlist_merge_append(S, a, b) == a \o b

\* DList::merge with the closure |s, o| s < o of FibHeap::merge
RECURSIVE dlist_merge(_, _, _)
dlist_merge(S, a, b) ==
    IF Len(b) = 0 THEN a
    ELSE IF Len(a) = 0 THEN b
    ELSE IF node_lt(S, Head(a), Head(b))
         THEN <<Head(a)>> \o dlist_merge(S, Tail(a), b)
         ELSE <<Head(b)>> \o dlist_merge(S, a, Tail(b))

\* FibHeap::merge; O holds the fields of the heap that is consumed
merge(S, O) ==
    [S EXCEPT !.roots = dlist_merge(S, S.roots, O.roots),
              !.hash_table = [v \in AllValues |->
                                 IF O.hash_table[v] # None THEN O.hash_table[v] ELSE @[v]],
              !.total = @ + O.total]

\* FibHeap::delete
delete(S, v, cast) ==
    LET node == S.hash_table[v]
    IN  IF node = None
        THEN [S |-> Panic(S, "hash_table: no entry"), ret |-> NoRet]
        ELSE LET D == decrease_key(S, v, S.nodes[node].key)
             IN  IF D.fault # "none" THEN [S |-> D, ret |-> NoRet]
                 ELSE delete_min(D, cast)

\* FibHeap::empty
empty(h) == total[h] = 0

\* FibHeap::new
NewHeap == [roots |-> <<>>, total |-> 0, hash_table |-> [v \in AllValues |-> None]]

\* ------------------------------------------------- the heap of lib.rs
\* src/src/lib.rs is the first version of the heap, with Rc<FibNode> for a
\* node and a Weak parent.  It is modelled on the same arena: an Rc is an
\* index, and a Weak upgrades while a root list, a table or the child
\* collection of a node that is alive holds the node.  Nodes order by key
\* and are equal when their values are.

\* PartialEq for FibNode
lib_node_eq(S, a, b) == S.nodes[a].value = S.nodes[b].value

\* PartialOrd for FibNode: a < b and a <= b
lib_node_lt(S, a, b) == S.nodes[a].key < S.nodes[b].key

lib_node_le(S, a, b) == S.nodes[a].key <= S.nodes[b].key

\* the nodes with a strong count above zero
RECURSIVE lib_owned(_, _)
lib_owned(S, A) ==
    LET B == A \cup UNION {Range(S.nodes[n].children) : n \in A}
    IN  IF B = A THEN A ELSE lib_owned(S, B)

\* Weak::upgrade, None for a node that was dropped
lib_upgrade(S, n) ==
    IF n \in lib_owned(S, (Range(S.roots) \cup {S.hash_table[v] : v \in AllValues}) \ {None})
    THEN n
    ELSE None

\* the loop of FibHeapEntry::remove_child: i iterations are left
RECURSIVE lib_remove_child_loop(_, _, _, _, _)
lib_remove_child_loop(S, p, cs, child, i) ==
    IF i = 0
    THEN Panic([S EXCEPT !.nodes[p].children = cs], "Child was not found in parent.")
    ELSE IF lib_node_eq(S, Front(cs), child)
         THEN [S EXCEPT !.nodes[p].children = Tail(cs)]
         ELSE lib_remove_child_loop(S, p, RotateBackward(cs), child, i - 1)

\* FibHeapEntry::remove_child
lib_remove_child(S, p, child) ==
    lib_remove_child_loop(S, p, S.nodes[p].children, child, Len(S.nodes[p].children))

\* FibHeap::find_min of lib.rs
lib_find_min(S) ==
    IF Len(S.roots) = 0
    THEN [S |-> Panic(S, "Fibonacci heap is empty"), ret |-> NoRet]
    ELSE [S |-> S, ret |-> Ret(S, Front(S.roots))]

\* FibHeap::meld: the roots of other go behind or before those of self; total
\* and hash_table of self stay as they are.  Both find_min calls are made
\* when self has roots.
lib_meld(S, O) ==
    IF Len(S.roots) = 0
    THEN [S EXCEPT !.roots = @ \o O.roots]
    ELSE IF lib_find_min(O).S.fault # "none"
         THEN Panic(S, lib_find_min(O).S.fault)
         ELSE IF lib_find_min(S).ret.key <= lib_find_min(O).ret.key
              THEN [S EXCEPT !.roots = @ \o O.roots]
              ELSE [S EXCEPT !.roots = O.roots \o @]

\* FibHeap::insert of lib.rs; node is the address Rc::new allocates
lib_insert(S, node, k, v) ==
    LET S1 == [S EXCEPT !.nodes[node] = new(k, v)]
        new_heap == [S1 EXCEPT !.roots = <<node>>, !.total = NewHeap.total,
                               !.hash_table = NewHeap.hash_table]
        S2 == lib_meld(S1, new_heap)
    IN  [S2 EXCEPT !.total = @ + 1, !.hash_table[v] = node]

\* FibHeap::add_children_to_roots: the child collection of node is cloned,
\* node keeps it
lib_add_children_to_roots(S, node) ==
    LET cs == S.nodes[node].children
    IN  [S EXCEPT !.nodes = [n \in NodeIds |->
                                IF n \in Range(cs) THEN [@[n] EXCEPT !.parent = None]
                                ELSE @[n]],
                  !.roots = @ \o cs]

RECURSIVE lib_insert_by_rank(_, _)

\* link_and_insert of lib.rs: the child goes to the front of the children
lib_link_and_insert(S, root, child) ==
    lib_insert_by_rank([S EXCEPT !.nodes[child].parent = root,
                                 !.nodes[child].marked = FALSE,
                                 !.nodes[root].children = PushFront(@, child)],
                       root)

\* insert_by_rank of lib.rs; slot r of rank_vec is rank_vec[r + 1] here
lib_insert_by_rank(S, node) ==
    IF S.fault # "none" THEN S
    ELSE LET r == rank(S, node)
         IN  IF r + 1 > Len(S.rank_vec)
             THEN Panic(S, "index out of bounds")
             ELSE IF S.rank_vec[r + 1] = None
                  THEN [S EXCEPT !.rank_vec[r + 1] = node]
                  ELSE LET other == S.rank_vec[r + 1]
                           T == [S EXCEPT !.rank_vec[r + 1] = None]
                       IN  IF lib_node_lt(T, node, other)
                           THEN lib_link_and_insert(T, node, other)
                           ELSE lib_link_and_insert(T, other, node)

\* the first loop of consolidate of lib.rs
RECURSIVE lib_consolidate_drain(_)
lib_consolidate_drain(S) ==
    IF S.fault # "none" \/ Len(S.roots) = 0
    THEN S
    ELSE lib_consolidate_drain(lib_insert_by_rank([S EXCEPT !.roots = Tail(@)], Front(S.roots)))

\* the second loop of consolidate of lib.rs: each occupied slot is pushed to
\* the back of the root list
RECURSIVE lib_consolidate_refill(_, _)
lib_consolidate_refill(S, i) ==
    IF S.fault # "none" \/ i > Len(S.rank_vec)
    THEN [S EXCEPT !.rank_vec = <<>>]
    ELSE lib_consolidate_refill(
             IF S.rank_vec[i] # None THEN [S EXCEPT !.roots = PushBack(@, S.rank_vec[i])]
             ELSE S, i + 1)

\* FibHeap::consolidate of lib.rs
lib_consolidate(S, cast) ==
    lib_consolidate_refill(
        lib_consolidate_drain([S EXCEPT !.rank_vec = [i \in 1..log_n(S, cast) |-> None]]), 1)

\* FibHeap::sort_roots of lib.rs, the loop is that of sort_roots
lib_sort_roots(S) ==
    IF Len(S.roots) < 1
    THEN S
    ELSE [S EXCEPT !.roots = sort_roots_loop(S, Front(S.roots), Tail(S.roots),
                                             Len(S.roots) - 1)]

\* FibHeap::delete_min of lib.rs
lib_delete_min(S, cast) ==
    IF Len(S.roots) = 0
    THEN [S |-> Panic(S, "Fibonacci heap is empty"), ret |-> NoRet]
    ELSE LET min_node == Front(S.roots)
             S1 == lib_add_children_to_roots([S EXCEPT !.roots = Tail(@)], min_node)
             S2 == lib_consolidate(S1, cast)
             S3 == lib_sort_roots(S2)
         IN  IF S2.fault # "none"
             THEN [S |-> S2, ret |-> NoRet]
             ELSE [S |-> [S3 EXCEPT !.total = @ - 1,
                                    !.hash_table[S.nodes[min_node].value] = None],
                   ret |-> Ret(S, min_node)]

\* FibHeap::add_root
lib_add_root(S, node) ==
    IF S.fault # "none" THEN S
    ELSE IF Len(S.roots) = 0
         THEN Panic(S, "unwrap on None")
         ELSE IF lib_node_le(S, Front(S.roots), node)
              THEN [S EXCEPT !.roots = PushBack(@, node)]
              ELSE [S EXCEPT !.roots = PushFront(@, node)]

\* FibHeap::cascading_cut of lib.rs
RECURSIVE lib_cascading_cut(_, _, _)
lib_cascading_cut(S, parent, child) ==
    LET S1 == lib_remove_child(S, parent, child)
        grandparent == S1.nodes[parent].parent
    IN  IF S1.fault # "none" \/ grandparent = None
        THEN S1
        ELSE IF lib_upgrade(S1, grandparent) = None
             THEN Panic(S1, "parent node has been dropped already.")
             ELSE IF S1.nodes[parent].marked
                  THEN lib_add_root(lib_cascading_cut(S1, grandparent, parent), parent)
                  ELSE [S1 EXCEPT !.nodes[parent].marked = TRUE]

\* the loop of FibHeap::remove_root: i iterations are left
RECURSIVE lib_remove_root_loop(_, _, _, _)
lib_remove_root_loop(S, rs, node, i) ==
    IF i = 0
    THEN rs
    ELSE IF lib_node_eq(S, node, Front(rs))
         THEN Tail(rs)
         ELSE lib_remove_root_loop(S, RotateBackward(rs), node, i - 1)

\* FibHeap::remove_root
lib_remove_root(S, node) ==
    [S EXCEPT !.roots = lib_remove_root_loop(S, @, node, Len(@))]

\* FibHeap::delete of lib.rs; ret names the node that left the heap
lib_delete(S, v, cast) ==
    LET node == S.hash_table[v]
        S1 == [S EXCEPT !.hash_table[v] = None]
    IN  IF node = None \/ Len(S.roots) = 0
        THEN [S |-> Panic(S, "unwrap on None"), ret |-> NoRet]
        ELSE IF lib_node_eq(S1, node, Front(S1.roots))
             THEN lib_delete_min(S1, cast)
             ELSE LET S2 == lib_add_children_to_roots(S1, node)
                      p == S2.nodes[node].parent
                      S3 == IF p = None
                            THEN lib_remove_root(S2, node)
                            ELSE IF lib_upgrade(S2, p) = None
                                 THEN Panic(S2, "parent node has been dropped already.")
                                 ELSE lib_cascading_cut(S2, p, node)
                  IN  [S |-> S3, ret |-> IF S3.fault = "none" THEN Ret(S, node) ELSE NoRet]

\* FibHeap::empty of lib.rs
lib_empty(h) == total[h] = 0

\* ------------------------------------------------- the reference queue
\* The reference priority queue is a bag of keys, one per element it
\* holds.  It is driven by the same calls as the heap and keeps its own
\* keys: it never reads the forest.
RefInsert(b, k) == b (+) SetToBag({k})

RefRemove(b, k) == b (-) SetToBag({k})

RefMin(b) == CHOOSE k \in BagToSet(b) : \A l \in BagToSet(b) : k <= l

RefDeleteMin(b) == IF BagToSet(b) = {} THEN b ELSE RefRemove(b, RefMin(b))

\* the element named in the call has key k at the caller
RefDecreaseKey(b, k, delta) ==
    IF BagIn(k, b) THEN RefInsert(RefRemove(b, k), k - delta) ELSE b

RefDelete(b, k) == RefRemove(b, k)

\* --------------------------------------------------------- the actions
\* the lengths the undefined cast in log_n may produce; it is only taken
\* when total is below 1
Casts(h) == IF total[h] >= 1 THEN {0} ELSE 0..Cardinality(NodeIds)

\* The arena after the nodes in gone were handed to the caller.  The box of
\* such a node leaks with its fields as they are; once no root list, child
\* collection, parent field or table entry holds its address nothing can
\* read it again, and its slot is kept Blank.
Held(ns, rs, hts) ==
    UNION {Range(rs[h]) : h \in Heaps}
        \cup UNION {Range(ns[n].children) : n \in NodeIds}
        \cup {ns[n].parent : n \in NodeIds}
        \cup {hts[h][v] : h \in Heaps, v \in AllValues}

Release(ns, rs, hts, gone) ==
    [n \in NodeIds |-> IF n \in gone \ Held(ns, rs, hts) THEN Blank ELSE ns[n]]

\* the record of an operation: the node it named, the parent that node had
\* when it was called, and what it returned
Op(name, h, arg, ret) ==
    [op |-> name, heap |-> h, arg |-> arg,
     parent |-> IF arg = None THEN None ELSE nodes[arg].parent, ret |-> ret]

\* a scripted run counts its calls
Tick == step' = IF mode \in ScriptModes THEN step + 1 ELSE step

\* the operation panicked: the program ends there
Abort(what, name, h, arg) ==
    /\ fault' = what
    /\ last' = Op(name, h, arg, NoRet)
    /\ UNCHANGED <<nodes, roots, total, hash_table, allocs, elems, ref, mode, put, out>>
    /\ Tick

\* the operation returned: S holds the new arena and the new fields of h
Commit(h, S, gone) ==
    /\ roots' = [roots EXCEPT ![h] = S.roots]
    /\ total' = [total EXCEPT ![h] = S.total]
    /\ hash_table' = [hash_table EXCEPT ![h] = S.hash_table]
    /\ nodes' = Release(S.nodes, roots', hash_table', gone)
    /\ fault' = "none"

Init ==
    /\ nodes = [n \in NodeIds |-> Blank]
    /\ roots = [h \in Heaps |-> NewHeap.roots]
    /\ total = [h \in Heaps |-> NewHeap.total]
    /\ hash_table = [h \in Heaps |-> NewHeap.hash_table]
    /\ allocs = 0
    /\ fault = "none"
    /\ elems = [h \in Heaps |-> {}]
    /\ ref = [h \in Heaps |-> EmptyBag]
    /\ last = Op("new", "self", None, NoRet)
    /\ mode = "any"
    /\ step = 0
    /\ put = <<>>
    /\ out = <<>>

\* an insert-then-drain run of heap "self"
InitDrain ==
    /\ nodes = [n \in NodeIds |-> Blank]
    /\ roots = [h \in Heaps |-> NewHeap.roots]
    /\ total = [h \in Heaps |-> NewHeap.total]
    /\ hash_table = [h \in Heaps |-> NewHeap.hash_table]
    /\ allocs = 0
    /\ fault = "none"
    /\ elems = [h \in Heaps |-> {}]
    /\ ref = [h \in Heaps |-> EmptyBag]
    /\ last = Op("new", "self", None, NoRet)
    /\ mode = "fill"
    /\ step = 0
    /\ put = <<>>
    /\ out = <<>>

\* a scripted run of heap "self", which follows one of the scripts
InitScript ==
    /\ nodes = [n \in NodeIds |-> Blank]
    /\ roots = [h \in Heaps |-> NewHeap.roots]
    /\ total = [h \in Heaps |-> NewHeap.total]
    /\ hash_table = [h \in Heaps |-> NewHeap.hash_table]
    /\ allocs = 0
    /\ fault = "none"
    /\ elems = [h \in Heaps |-> {}]
    /\ ref = [h \in Heaps |-> EmptyBag]
    /\ last = Op("new", "self", None, NoRet)
    /\ mode \in ScriptModes
    /\ step = 0
    /\ put = <<>>
    /\ out = <<>>

\* a run on one node, as remove_child_test makes it: no heap is used
InitNode ==
    /\ nodes = [n \in NodeIds |-> Blank]
    /\ roots = [h \in Heaps |-> NewHeap.roots]
    /\ total = [h \in Heaps |-> NewHeap.total]
    /\ hash_table = [h \in Heaps |-> NewHeap.hash_table]
    /\ allocs = 0
    /\ fault = "none"
    /\ elems = [h \in Heaps |-> {}]
    /\ ref = [h \in Heaps |-> EmptyBag]
    /\ last = Op("new", "self", None, NoRet)
    /\ mode = "node"
    /\ step = 0
    /\ put = <<>>
    /\ out = <<>>

\* let n = FibNode::new(k, v)
NewNode(k, v) ==
    /\ mode = "node"
    /\ allocs < MaxChildren + 1
    /\ allocs' = allocs + 1
    /\ nodes' = [nodes EXCEPT ![allocs + 1] = new(k, v)]
    /\ last' = [Op("new", "self", None, NoRet) EXCEPT !.arg = allocs + 1]
    /\ UNCHANGED <<roots, total, hash_table, fault, elems, ref, mode, step, put, out>>

\* p.add_child(c.clone()) for a node c that is not a child of p
AddChild(p, c) ==
    /\ mode = "node"
    /\ p \in 1..allocs /\ c \in 1..allocs /\ p # c
    /\ c \notin Range(nodes[p].children)
    /\ nodes' = add_child(State("self"), p, c).nodes
    /\ last' = [Op("add_child", "self", c, NoRet) EXCEPT !.parent = p]
    /\ UNCHANGED <<roots, total, hash_table, allocs, fault, elems, ref, mode, step, put, out>>

\* let res = p.remove_child(c); the record keeps the child that came back,
\* or NoRet for Err
RemoveChild(p, c) ==
    /\ mode = "node"
    /\ p \in 1..allocs /\ c \in 1..allocs /\ p # c
    /\ LET res == remove_child(State("self"), p, c)
       IN  /\ nodes' = res.S.nodes
           /\ last' = [Op("remove_child", "self", c,
                           IF res.ok THEN Ret(res.S, res.removed) ELSE NoRet)
                           EXCEPT !.parent = p]
    /\ UNCHANGED <<roots, total, hash_table, allocs, fault, elems, ref, mode, step, put, out>>

Insert(h, k, v) ==
    /\ fault = "none"
    /\ mode \in {"any", "fill"} \cup ScriptModes
    /\ allocs < (CASE mode = "any" -> MaxNodes
                   [] mode = "fill" -> MaxDrain
                   [] OTHER -> ScriptInserts)
    /\ LET node == allocs + 1
           S == insert(State(h), node, k, v)
       IN  /\ Commit(h, S, {})
           /\ allocs' = node
           /\ elems' = [elems EXCEPT ![h] = @ \cup {node}]
           /\ ref' = [ref EXCEPT ![h] = RefInsert(@, k)]
           /\ last' = [Op("insert", h, None, NoRet) EXCEPT !.arg = node]
           /\ put' = IF mode = "fill" THEN Append(put, k) ELSE put
    /\ Tick
    /\ UNCHANGED <<mode, out>>

FindMin(h) ==
    /\ fault = "none"
    /\ mode \in {"any"} \cup ScriptModes
    /\ LET R == find_min(State(h))
       IN  IF R.S.fault # "none"
           THEN Abort(R.S.fault, "find_min", h, None)
           ELSE /\ last' = Op("find_min", h, None, R.ret)
                /\ Tick
                /\ UNCHANGED <<nodes, roots, total, hash_table, allocs, fault, elems, ref, mode, put, out>>

DeleteMin(h) ==
    /\ fault = "none"
    /\ mode \in {"any", "fill", "drain"} \cup ScriptModes
    /\ \E cast \in Casts(h) :
          LET R == delete_min(State(h), cast)
          IN  IF R.S.fault # "none"
              THEN Abort(R.S.fault, "delete_min", h, None)
              ELSE /\ Commit(h, R.S, {R.ret.node})
                   /\ elems' = [elems EXCEPT ![h] = @ \ {R.ret.node}]
                   /\ ref' = [ref EXCEPT ![h] = RefDeleteMin(@)]
                   /\ last' = Op("delete_min", h, None, R.ret)
                   /\ UNCHANGED allocs
                   /\ mode' = IF mode = "fill" THEN "drain" ELSE mode
                   /\ out' = IF mode \in {"fill", "drain"} THEN Append(out, R.ret) ELSE out
                   /\ Tick
                   /\ UNCHANGED put

\* delta is at most the key: the new key does not leave the key type
DecreaseKey(h, v, delta) ==
    /\ fault = "none"
    /\ mode \in {"any"} \cup ScriptModes
    /\ LET node == hash_table[h][v]
           S == decrease_key(State(h), v, delta)
       IN  /\ node # None => delta <= nodes[node].key
           /\ IF S.fault # "none"
              THEN Abort(S.fault, "decrease_key", h, node)
              ELSE /\ Commit(h, S, {})
                   /\ ref' = [ref EXCEPT ![h] = RefDecreaseKey(@, nodes[node].key, delta)]
                   /\ last' = Op("decrease_key", h, node, NoRet)
                   /\ Tick
                   /\ UNCHANGED <<allocs, elems, mode, put, out>>

\* A call the caller must not make: delta is above the key of the element.
\* The run is followed up to the return of that call.
DecreaseKeyBeyond(h, v, delta) ==
    /\ fault = "none"
    /\ mode = "any"
    /\ hash_table[h][v] # None
    /\ delta > nodes[hash_table[h][v]].key
    /\ \E checked \in BOOLEAN :
          LET node == hash_table[h][v]
              S == decrease_key_beyond(State(h), v, delta, checked)
          IN  IF S.fault # "none"
              THEN Abort(S.fault, "decrease_key", h, node)
              ELSE /\ Commit(h, S, {})
                   /\ ref' = [ref EXCEPT ![h] =
                                 RefInsert(RefRemove(@, nodes[node].key),
                                           (nodes[node].key - delta) % KeyModulus)]
                   /\ last' = Op("decrease_key", h, node, NoRet)
                   /\ Tick
                   /\ mode' = "beyond"
                   /\ UNCHANGED <<allocs, elems, put, out>>

Delete(h, v) ==
    /\ fault = "none"
    /\ mode \in {"any"} \cup ScriptModes
    /\ \E cast \in Casts(h) :
          LET node == hash_table[h][v]
              R == delete(State(h), v, cast)
          IN  IF R.S.fault # "none"
              THEN Abort(R.S.fault, "delete", h, node)
              ELSE /\ Commit(h, R.S, {R.ret.node})
                   /\ elems' = [elems EXCEPT ![h] = @ \ {R.ret.node}]
                   /\ ref' = [ref EXCEPT ![h] = RefDelete(@, nodes[node].key)]
                   /\ last' = Op("delete", h, node, R.ret)
                   /\ Tick
                   /\ UNCHANGED <<allocs, mode, put, out>>

\* self.merge(other): other is consumed; its name then stands for a heap
\* made by FibHeap::new().  The record of the call keeps the front root of
\* other and what find_min on self gave before the call.
Merge(h, o) ==
    /\ fault = "none"
    /\ mode = "any"
    /\ h # o
    /\ LET S == merge(State(h), State(o))
       IN  /\ nodes' = S.nodes
           /\ roots' = [roots EXCEPT ![h] = S.roots, ![o] = NewHeap.roots]
           /\ total' = [total EXCEPT ![h] = S.total, ![o] = NewHeap.total]
           /\ hash_table' = [hash_table EXCEPT ![h] = S.hash_table, ![o] = NewHeap.hash_table]
           /\ elems' = [elems EXCEPT ![h] = @ \cup elems[o], ![o] = {}]
           /\ ref' = [ref EXCEPT ![h] = @ (+) ref[o], ![o] = EmptyBag]
           /\ last' = Op("merge", h, find_min(State(o)).ret.node, find_min(State(h)).ret)
    /\ UNCHANGED <<allocs, fault, mode, step, put, out>>

\* the values of a run on the heap of lib.rs: one for each node
LibValues == 1..MaxNodes

\* a run on the heap of lib.rs
InitLib ==
    /\ nodes = [n \in NodeIds |-> Blank]
    /\ roots = [h \in Heaps |-> NewHeap.roots]
    /\ total = [h \in Heaps |-> NewHeap.total]
    /\ hash_table = [h \in Heaps |-> NewHeap.hash_table]
    /\ allocs = 0
    /\ fault = "none"
    /\ elems = [h \in Heaps |-> {}]
    /\ ref = [h \in Heaps |-> EmptyBag]
    /\ last = Op("new", "self", None, NoRet)
    /\ mode = "lib"
    /\ step = 0
    /\ put = <<>>
    /\ out = <<>>

\* insert of lib.rs; the caller gives each element a value of its own, the
\* n-th element the value n
LibInsert(h, k, v) ==
    /\ fault = "none"
    /\ mode = "lib"
    /\ allocs < MaxNodes
    /\ v = allocs + 1
    /\ LET node == allocs + 1
           S == lib_insert(State(h), node, k, v)
       IN  /\ Commit(h, S, {})
           /\ allocs' = node
           /\ elems' = [elems EXCEPT ![h] = @ \cup {node}]
           /\ last' = [Op("insert", h, None, NoRet) EXCEPT !.arg = node]
    /\ UNCHANGED <<ref, mode, step, put, out>>

LibDeleteMin(h) ==
    /\ fault = "none"
    /\ mode = "lib"
    /\ \E cast \in Casts(h) :
          LET R == lib_delete_min(State(h), cast)
          IN  IF R.S.fault # "none"
              THEN Abort(R.S.fault, "delete_min", h, None)
              ELSE /\ Commit(h, R.S, {R.ret.node})
                   /\ elems' = [elems EXCEPT ![h] = @ \ {R.ret.node}]
                   /\ last' = Op("delete_min", h, None, R.ret)
                   /\ UNCHANGED <<allocs, ref, mode, step, put, out>>

LibDelete(h, v) ==
    /\ fault = "none"
    /\ mode = "lib"
    /\ \E cast \in Casts(h) :
          LET node == hash_table[h][v]
              R == lib_delete(State(h), v, cast)
          IN  IF R.S.fault # "none"
              THEN Abort(R.S.fault, "delete", h, node)
              ELSE /\ Commit(h, R.S, {R.ret.node})
                   /\ elems' = [elems EXCEPT ![h] = @ \ {R.ret.node}]
                   /\ last' = Op("delete", h, node, R.ret)
                   /\ UNCHANGED <<allocs, ref, mode, step, put, out>>

\* meld of lib.rs takes other by value: other is gone after the call
LibMeld(h, o) ==
    /\ fault = "none"
    /\ mode = "lib"
    /\ h # o
    /\ LET S == lib_meld(State(h), State(o))
       IN  IF S.fault # "none"
           THEN Abort(S.fault, "meld", h, None)
           ELSE /\ nodes' = S.nodes
                /\ roots' = [roots EXCEPT ![h] = S.roots, ![o] = NewHeap.roots]
                /\ total' = [total EXCEPT ![h] = S.total, ![o] = NewHeap.total]
                /\ hash_table' = [hash_table EXCEPT ![h] = S.hash_table,
                                                    ![o] = NewHeap.hash_table]
                /\ elems' = [elems EXCEPT ![h] = @ \cup elems[o], ![o] = {}]
                /\ last' = Op("meld", h, lib_find_min(State(o)).ret.node,
                              lib_find_min(State(h)).ret)
                /\ UNCHANGED <<allocs, fault, ref, mode, step, put, out>>

\* The caller works on the heap "self"; "other" is a heap it builds by
\* insert and merge and hands to merge.  Either heap can be merged into the
\* other, so a heap with trees is met on both sides of merge.
Next ==
    \/ \E h \in Heaps, k \in Keys, v \in Values : Insert(h, k, v)
    \/ FindMin("self")
    \/ DeleteMin("self")
    \/ \E v \in Values, delta \in Keys : DecreaseKey("self", v, delta)
    \/ \E v \in Values : Delete("self", v)
    \/ \E h \in Heaps, o \in Heaps : Merge(h, o)

Spec == Init /\ [][Next]_vars

\* the calls of Next and decrease_key calls with a delta above the key
NextBeyond ==
    \/ Next
    \/ \E v \in Values, delta \in Keys : DecreaseKeyBeyond("self", v, delta)

SpecBeyond == Init /\ [][NextBeyond]_vars

NextDrain ==
    \/ \E k \in Keys, v \in Values : Insert("self", k, v)
    \/ DeleteMin("self")

SpecDrain == InitDrain /\ [][NextDrain]_vars

\* the first node made is the one whose children are added and removed
NextNode ==
    \/ \E k \in Keys, v \in Values : NewNode(k, v)
    \/ \E c \in NodeIds : AddChild(1, c)
    \/ \E c \in NodeIds : RemoveChild(1, c)

SpecNode == InitNode /\ [][NextNode]_vars

\* the script a scripted run follows
Run ==
    CASE mode = "marks" -> MarkScript
      [] mode = "ranks" -> RankScript
      [] mode = "twice" -> TwiceScript
      [] OTHER -> Script

\* a scripted run makes the calls of its script in order and then at most
\* MaxFree calls of any kind but insert
Scheduled(c) ==
    IF step < Len(Run)
    THEN c = Run[step + 1]
    ELSE step < Len(Run) + MaxFree /\ c.op # "insert"

NextScript ==
    \/ \E k \in AllKeys, v \in AllValues :
          Scheduled(Call("insert", k, v)) /\ Insert("self", k, v)
    \/ Scheduled(Call("delete_min", 0, 0)) /\ DeleteMin("self")
    \/ \E v \in AllValues, delta \in AllKeys :
          Scheduled(Call("decrease_key", delta, v)) /\ DecreaseKey("self", v, delta)
    \/ \E v \in AllValues :
          Scheduled(Call("delete", 0, v)) /\ Delete("self", v)

SpecScript == InitScript /\ [][NextScript]_vars

\* the calls on the heap of lib.rs
NextLib ==
    \/ \E h \in Heaps, k \in Keys, v \in LibValues : LibInsert(h, k, v)
    \/ LibDeleteMin("self")
    \/ \E v \in LibValues : LibDelete("self", v)
    \/ \E h \in Heaps, o \in Heaps : LibMeld(h, o)

SpecLib == InitLib /\ [][NextLib]_vars

\* ------------------------------------------------------------ the claims
Min(A) == CHOOSE a \in A : \A b \in A : a <= b

\* the nodes reached from a set of nodes by at most i steps through children
RECURSIVE Descend(_, _)
Descend(A, i) ==
    IF i = 0 THEN A
    ELSE Descend(A \cup UNION {Range(nodes[n].children) : n \in A}, i - 1)

\* the nodes reachable from the root list of h through the children relation
Reachable(h) == Descend(Range(roots[h]), Cardinality(NodeIds))

\* the nodes that were handed back to the caller
Returned == {n \in 1..allocs : \A h \in Heaps : n \notin elems[h]}

\* C1: find_min on a non-empty heap returns the smallest key among the live
\* elements, the key the reference priority queue reports as its minimum.
MinCorrect ==
    fault = "none" =>
        \A h \in Heaps :
            elems[h] # {} =>
                LET R == find_min(State(h))
                IN  /\ R.S.fault = "none"
                    /\ R.ret.key = RefMin(ref[h])
                    /\ R.ret.key = Min({nodes[n].key : n \in elems[h]})

\* C2: heap order: a node that has a parent has a key at least its parent's.
HeapOrder ==
    \A n \in NodeIds :
        nodes[n].parent # None => nodes[n].key >= nodes[nodes[n].parent].key

\* a decrease_key left its node under a parent, and some child has a larger
\* key than its parent
HeapOrderWitness ==
    /\ fault = "none"
    /\ last.op = "decrease_key"
    /\ nodes[last.arg].parent # None
    /\ \E n \in NodeIds : nodes[n].parent # None /\ nodes[n].key > nodes[nodes[n].parent].key

\* C4: total is the number of elements inserted or merged in and not yet
\* removed, and the number of nodes reachable from the root list.
CountInvariant ==
    \A h \in Heaps :
        /\ total[h] = Cardinality(elems[h])
        /\ total[h] = BagCardinality(ref[h])
        /\ total[h] = Cardinality(Reachable(h))

DrainSorted ==
    (mode # "any" /\ fault = "none") =>
        /\ \A i, j \in 1..Len(out) : i < j => out[i].key <= out[j].key
        /\ \A i, j \in 1..Len(out) : i # j => out[i].node # out[j].node
        /\ \A i \in 1..Len(out) :
              out[i].node \in 1..Len(put) /\ out[i].key = put[out[i].node]
        /\ empty("self") => {out[i].node : i \in 1..Len(out)} = 1..Len(put)

\* MaxDrain elements with different keys were inserted and all came back
DrainSortedWitness ==
    /\ mode = "drain"
    /\ fault = "none"
    /\ empty("self")
    /\ Len(put) = MaxDrain
    /\ Len(out) = MaxDrain
    /\ out[1].key < out[MaxDrain].key
    /\ \E i \in 1..(MaxDrain - 1) : put[i] > put[i + 1]

\* C5: delete(e) removes exactly e and returns the value of e: e is no
\* longer in the heap, every other element still is, and total is one lower.
DeleteRemovesNamed ==
    [][\A h \in Heaps, e \in NodeIds :
          (last'.op = "delete" /\ last'.heap = h /\ last'.arg = e /\ fault' = "none") =>
              /\ last'.ret.node = e
              /\ last'.ret.value = nodes[e].value
              /\ e \notin Reachable(h)'
              /\ Reachable(h)' = Reachable(h) \ {e}
              /\ total'[h] = total[h] - 1]_vars

\* C7: merge sums the totals, the root list of the result holds exactly the
\* roots of the two heaps, and its front root has the smaller of the two
\* minimum keys.
MergeEffect ==
    [][\A h, o \in Heaps :
          Merge(h, o) =>
              LET mins == {find_min(State(x)).ret.key : x \in {y \in {h, o} : Len(roots[y]) > 0}}
              IN  /\ total'[h] = total[h] + total[o]
                  /\ Len(roots'[h]) = Len(roots[h]) + Len(roots[o])
                  /\ Range(roots'[h]) = Range(roots[h]) \cup Range(roots[o])
                  /\ mins # {} => (find_min(State(h)).ret.key)' = Min(mins)]_vars

\* two non-empty heaps were merged and the front root of other had the
\* smaller key
MergeEffectWitness ==
    /\ fault = "none"
    /\ last.op = "merge"
    /\ last.arg # None
    /\ last.ret.node # None
    /\ nodes[last.arg].key < last.ret.key
    /\ Front(roots[last.heap]) = last.arg

\* C9: find_min and delete_min on an empty heap hand the caller a result and
\* do not end the program.
EmptyHeapIsResult ==
    (last.op \in {"find_min", "delete_min"} /\ Len(roots[last.heap]) = 0 /\ last.ret = NoRet)
        => fault = "none"

\* C10: an element that delete_min or delete returned is in no root list, in
\* no child collection and in no entry of a lookup table.
ReturnedUnreachable ==
    \A x \in Returned :
        /\ \A h \in Heaps : x \notin Range(roots[h])
        /\ \A n \in NodeIds : x \notin Range(nodes[n].children)
        /\ \A h \in Heaps, v \in AllValues : hash_table[h][v] # x

\* C12: remove_child(c) for a child c of the node removes c itself and no
\* other child, whatever the keys of the other children are.
RemoveChildByIdentity ==
    [][\A c \in NodeIds :
          (RemoveChild(1, c) /\ c \in Range(nodes[1].children)) =>
              /\ last'.ret.node = c
              /\ Range(nodes'[1].children) = Range(nodes[1].children) \ {c}]_vars

\* C13: remove_child gives Ok for every node that is a child, and Err for a
\* node that is not a child, and then the children are the same as before.
RemoveChildResult ==
    [][\A c \in NodeIds :
          RemoveChild(1, c) =>
              IF c \in Range(nodes[1].children)
              THEN last'.ret.node # None
              ELSE /\ last'.ret = NoRet
                   /\ nodes'[1].children = nodes[1].children]_vars

\* the nodes the lookup table of h addresses
Addressed(h) == {hash_table[h][v] : v \in AllValues} \ {None}

\* C11: the lookup table holds one entry for every live element and no
\* other: it has total entries and addresses exactly the live elements.
TableOnePerLive ==
    \A h \in Heaps :
        /\ Cardinality({v \in AllValues : hash_table[h][v] # None}) = total[h]
        /\ Addressed(h) = elems[h]

\* C14: a decrease_key whose delta is above the key of the element leaves
\* every key and the forest as they were.
DeltaBeyondRejected ==
    [][\A v \in Values, delta \in Keys :
          DecreaseKeyBeyond("self", v, delta) =>
              /\ nodes' = nodes
              /\ roots' = roots]_vars

\* the number of places of the root list of h that hold n
Occurrences(h, n) == Cardinality({i \in 1..Len(roots[h]) : roots[h][i] = n})

\* C15: the root list holds exactly the live nodes without a parent, each
\* of them once, and no node that has a parent.
RootsAreParentless ==
    \A h \in Heaps :
        /\ \A n \in elems[h] : nodes[n].parent = None => Occurrences(h, n) = 1
        /\ \A n \in Range(roots[h]) : n \in elems[h] /\ nodes[n].parent = None

\* C16: every node in a root list is unmarked.
RootsUnmarked ==
    \A h \in Heaps : \A n \in Range(roots[h]) : ~nodes[n].marked

\* the Fibonacci sequence: F(1) = F(2) = 1
RECURSIVE F(_)
F(i) == IF i <= 2 THEN 1 ELSE F(i - 1) + F(i - 2)

\* the number of nodes of the subtree of n
SubtreeSize(n) == Cardinality(Descend({n}, Cardinality(NodeIds)))

\* C17: a live node with r children is the root of a subtree of at least
\* F(r + 2) nodes.
RankBound ==
    \A h \in Heaps : \A n \in elems[h] :
        SubtreeSize(n) >= F(Len(nodes[n].children) + 2)

\* the live nodes of all heaps
Live == UNION {elems[h] : h \in Heaps}

\* C18: in one operation the key of a node that is live before and after
\* never increases and changes only when the node is the one named in a
\* decrease_key or delete call; its value never changes.
KeysOnlyDecrease ==
    [][\A n \in NodeIds :
          (n \in Live /\ n \in Live') =>
              /\ nodes'[n].value = nodes[n].value
              /\ nodes'[n].key <= nodes[n].key
              /\ nodes'[n].key # nodes[n].key =>
                    last'.op \in {"decrease_key", "delete"} /\ last'.arg = n]_vars

\* C19: consolidate never indexes its slot array out of range.
SlotsSuffice == fault # "index out of bounds"

\* C20: after a delete_min that leaves elements in the heap no two roots
\* have the same rank, the nodes of the forest are those of before without
\* the node returned, and no node has a key below the key of the front root.
ConsolidateEffect ==
    [][\A h \in Heaps :
          (DeleteMin(h) /\ fault' = "none" /\ ~empty(h)' /\ Len(roots'[h]) > 0) =>
              /\ \A i, j \in 1..Len(roots'[h]) :
                    i # j => Len(nodes'[roots'[h][i]].children)
                                 # Len(nodes'[roots'[h][j]].children)
              /\ Reachable(h)' = Reachable(h) \ {last'.ret.node}
              /\ \A n \in Reachable(h)' :
                    nodes'[Front(roots'[h])].key <= nodes'[n].key]_vars

\* the marked nodes with a parent met from n upwards through the parent
\* links, n first, before the first node that is unmarked or a root
RECURSIVE MarkedChain(_, _)
MarkedChain(n, i) ==
    IF i = 0 \/ n = None THEN {}
    ELSE IF nodes[n].parent = None \/ ~nodes[n].marked THEN {}
    ELSE {n} \cup MarkedChain(nodes[n].parent, i - 1)

\* the node at which that walk stops
RECURSIVE ChainTop(_, _)
ChainTop(n, i) ==
    IF i = 0 \/ n = None THEN None
    ELSE IF nodes[n].parent = None \/ ~nodes[n].marked THEN n
    ELSE ChainTop(nodes[n].parent, i - 1)

\* C21: a decrease_key that cuts its node x adds 1 + k roots, where k is
\* the number of marked ancestors with a parent in a row from the parent of
\* x upwards; these become unmarked roots without a parent, the ancestor
\* above them is marked if it has a parent, and no mark or parent link of
\* any other node changes.
CascadeEffect ==
    [][\A v \in AllValues, delta \in AllKeys :
          (DecreaseKey("self", v, delta) /\ fault' = "none") =>
              LET x == hash_table["self"][v]
                  p == nodes[x].parent
                  chain == MarkedChain(p, Cardinality(NodeIds))
                  top == ChainTop(p, Cardinality(NodeIds))
              IN  (p # None /\ nodes[x].key - delta < nodes'[p].key) =>
                      /\ Len(roots'["self"]) = Len(roots["self"]) + 1 + Cardinality(chain)
                      /\ \A a \in chain :
                            /\ nodes'[a].parent = None
                            /\ ~nodes'[a].marked
                            /\ a \in Range(roots'["self"])
                      /\ top # None =>
                            /\ nodes'[top].parent = nodes[top].parent
                            /\ nodes'[top].marked =
                                  (nodes[top].parent # None \/ nodes[top].marked)
                      /\ \A n \in NodeIds \ (chain \cup {x, top}) :
                            /\ nodes'[n].parent = nodes[n].parent
                            /\ nodes'[n].marked = nodes[n].marked]_vars

\* a decrease_key cut its node from a marked parent, and that parent was
\* cut from its own parent in turn
CascadeEffectWitness ==
    /\ fault = "none"
    /\ last.op = "decrease_key"
    /\ last.parent # None
    /\ nodes[last.arg].parent = None
    /\ nodes[last.parent].parent = None
    /\ {last.arg, last.parent} \subseteq Range(roots["self"])
    /\ Len(nodes[last.parent].children) = 0
    /\ mode = "script"
    /\ step = 14

Count(s, n) == Cardinality({i \in 1..Len(s) : s[i] = n})

\* C23: a decrease_key on a node of the root list keeps the roots and their
\* number, every parent link, every child collection, every mark and total;
\* the root list is reordered at most, and afterwards no root has a key
\* below that of the front root.
RootDecreaseEffect ==
    [][\A v \in AllValues, delta \in AllKeys :
          (DecreaseKey("self", v, delta) /\ fault' = "none") =>
              LET x == hash_table["self"][v]
              IN  x \in Range(roots["self"]) =>
                      /\ nodes' = [nodes EXCEPT ![x].key = nodes[x].key - delta]
                      /\ \A n \in NodeIds :
                            Count(roots'["self"], n) = Count(roots["self"], n)
                      /\ total' = total
                      /\ \A n \in Range(roots'["self"]) :
                            nodes'[Front(roots'["self"])].key <= nodes'[n].key]_vars

\* the links made by the consolidation of a delete_min or of a delete
\* called in this state
Links(h) ==
    UNION ({Range(delete_min(State(h), cast).S.links) : cast \in Casts(h)}
           \cup {Range(delete(State(h), v, cast).S.links) :
                     v \in AllValues, cast \in Casts(h)})

\* C24: each link made by the consolidation of a delete_min or delete joins two nodes
\* of equal rank; the node with the strictly larger key is the child, with
\* equal keys the node taken out of the slot is the parent; the child has
\* the other node as parent and no mark, and the rank of the parent is one
\* more than before.
LinkRule ==
    [][(DeleteMin("self") \/ \E v \in AllValues : Delete("self", v)) =>
          \A e \in Links("self") :
              /\ e.root_rank = e.child_rank
              /\ e.root_key <= e.child_key
              /\ e.root_key = e.child_key => e.root = e.taken
              /\ e.parent = e.root
              /\ ~e.marked
              /\ e.rank = e.root_rank + 1]_vars

\* a delete_min has linked four roots into one tree of rank 2, whose root has
\* a child of its own key and a child of a larger key
LinkRuleWitness ==
    /\ fault = "none"
    /\ last.op = "delete_min"
    /\ \E p \in Range(roots["self"]) :
          /\ rank(State("self"), p) = 2
          /\ \E c \in Range(nodes[p].children) :
                nodes[c].key = nodes[p].key /\ nodes[c].parent = p
          /\ \E c \in Range(nodes[p].children) :
                nodes[c].key > nodes[p].key /\ nodes[c].parent = p

\* C25: insert(k, v) adds one node, which is new and is a root without
\* children, parent or mark: the root list and total of the heap grow by
\* one, and the key, parent, children and mark of every other node are as
\* before.
InsertEffect ==
    [][\A h \in Heaps, k \in AllKeys, v \in AllValues :
          Insert(h, k, v) =>
              \E n \in NodeIds :
                  /\ n \notin Reachable(h) \cup Range(roots[h])
                  /\ nodes'[n] = new(k, v)
                  /\ rank(State(h)', n) = 0
                  /\ Count(roots'[h], n) = 1
                  /\ \A m \in NodeIds \ {n} :
                        /\ Count(roots'[h], m) = Count(roots[h], m)
                        /\ nodes'[m] = nodes[m]
                  /\ total'[h] = total[h] + 1
                  /\ fault' = "none"]_vars

\* an insert put a node with a smaller key in front of the two roots of a
\* heap
InsertEffectWitness ==
    /\ fault = "none"
    /\ last.op = "insert"
    /\ Len(roots[last.heap]) = 3
    /\ total[last.heap] = 3
    /\ Front(roots[last.heap]) = last.arg
    /\ nodes[last.arg] = new(nodes[last.arg].key, nodes[last.arg].value)
    /\ \A r \in Range(Tail(roots[last.heap])) : nodes[last.arg].key < nodes[r].key

\* C26: every call runs to completion: no call is ended inside the loops of
\* consolidate and insert_by_rank or inside the recursion of cascading_cut.
RunsToCompletion ==
    /\ last.op \in {"delete_min", "delete"} => fault \notin {"index out of bounds"}
    /\ last.op \in {"decrease_key", "delete"} => fault \notin {"assert: res.is_ok()"}

\* C27: in the heap of lib.rs a delete that returns lowers total by one, be
\* the element the front root, another root or a child, and once no element
\* is left empty() is true.
LibDeleteCounts ==
    [][\A v \in LibValues :
          (LibDelete("self", v) /\ fault' = "none") =>
              /\ total'["self"] = total["self"] - 1
              /\ elems'["self"] = {} => lib_empty("self")']_vars

\* the places of the structure of h that hold n: those of the root list and
\* those of the child collections
Places(h, n) ==
    Count(roots[h], n)
        + Cardinality({pi \in NodeIds \X (1..Cardinality(NodeIds)) :
                          /\ pi[2] <= Len(nodes[pi[1]].children)
                          /\ nodes[pi[1]].children[pi[2]] = n})

\* at most i parent links lead from n to a node without parent that is in
\* the root list of h
RECURSIVE Climbs(_, _, _)
Climbs(h, n, i) ==
    IF nodes[n].parent = None THEN n \in Range(roots[h])
    ELSE i > 0 /\ Climbs(h, nodes[n].parent, i - 1)

\* C28: the forest is well formed in every state: a live node is in the
\* child collection of p exactly when its parent is p, it occurs once in the
\* root list and the child collections together, and its parent links lead
\* to a root without meeting a node twice.
WellFormed ==
    \A h \in Heaps : \A x \in elems[h] :
        /\ \A p \in NodeIds : x \in Range(nodes[p].children) <=> nodes[x].parent = p
        /\ Places(h, x) = 1
        /\ Climbs(h, x, Cardinality(NodeIds) - 1)

\* a heap as new() makes it
IsNew(h) == roots[h] = NewHeap.roots /\ total[h] = NewHeap.total /\ elems[h] = {}

\* C29: merge and meld with an empty heap on either side return without
\* fault, and the result has the elements, the total and the root list, and
\* with it the minimum, of the heap that was not empty.
EmptyIsIdentity ==
    [][\A h, o \in Heaps :
          (h # o /\ (Merge(h, o) \/ LibMeld(h, o)) /\ (IsNew(h) \/ IsNew(o))) =>
              \E H \in {h, o} :
                  /\ IsNew(IF H = h THEN o ELSE h)
                  /\ fault' = "none"
                  /\ elems'[h] = elems[H]
                  /\ Reachable(h)' = Reachable(H)
                  /\ total'[h] = total[H]
                  /\ roots'[h] = roots[H]]_vars

====
